---- MODULE Spec2Model ----
(***************************************************************************)
(* Model of meu-financeiro/src/App.jsx (ZeroBudgetApp): the four in-memory *)
(* collections, the date in view, the screen state, React's batched state  *)
(* updates, the load/persist effects and every event handler.              *)
(*                                                                         *)
(* Strings are sequences of one-character strings, so that getMonthKey     *)
(* (formatting) and split('-').map(Number) (parsing) are real conversions. *)
(* Money is modelled in whole units.  The id/description/date fields of    *)
(* templates and transactions are never read by the program's logic and    *)
(* are left out; category ids are kept (they are what categoryId refers    *)
(* to).                                                                    *)
(***************************************************************************)
EXTENDS Integers, Sequences, FiniteSets, TLC

\* ------------------------------------------------------------------ bounds
FirstYear == 2024
\* the main specification navigates within WindowMonths months starting at
\* December of FirstYear (the year rollover included)
WindowMonths == 2
\* the navigation specification covers NavYears whole years from FirstYear
NavYears == 2
MaxShift == 2
\* the records the user creates by hand: categories, recurring templates
\* and recorded transactions, all together (the automated transactions are
\* bounded by the templates and the months of the window)
MaxEntries == 3

\* ------------------------------------------------- strings and conversions
DigitChars == <<"0", "1", "2", "3", "4", "5", "6", "7", "8", "9">>

DigitVal(c) == (CHOOSE i \in 1..10 : DigitChars[i] = c) - 1

RECURSIVE NatToString(_)
NatToString(n) ==
  IF n < 10 THEN <<DigitChars[n + 1]>>
  ELSE NatToString(n \div 10) \o <<DigitChars[(n % 10) + 1]>>

\* template-literal / toString() rendering of an integer
IntToString(n) == IF n < 0 THEN <<"-">> \o NatToString(-n) ELSE NatToString(n)

\* String.prototype.padStart(2, '0')
padStart2(s) == IF Len(s) < 2 THEN <<"0">> \o s ELSE s

RECURSIVE DigitsToNat(_, _)
DigitsToNat(s, acc) ==
  IF s = <<>> THEN acc ELSE DigitsToNat(Tail(s), acc * 10 + DigitVal(Head(s)))

\* Number(x) on a numeric string ("" converts to 0, a leading "-" negates)
NumberOf(s) ==
  IF s = <<>> THEN 0
  ELSE IF Head(s) = "-" THEN 0 - DigitsToNat(Tail(s), 0)
  ELSE DigitsToNat(s, 0)

\* String.prototype.split('-')
RECURSIVE SplitDash(_, _)
SplitDash(s, cur) ==
  IF s = <<>> THEN <<cur>>
  ELSE IF Head(s) = "-" THEN <<cur>> \o SplitDash(Tail(s), <<>>)
  ELSE SplitDash(Tail(s), Append(cur, Head(s)))

\* ------------------------------------------------------------------- dates
\* a Date is [year, month (0..11), day]; the time of day plays no part
IsLeap(y) == (y % 4 = 0 /\ y % 100 # 0) \/ y % 400 = 0

DaysInMonth(y, m) ==
  IF m = 1 THEN (IF IsLeap(y) THEN 29 ELSE 28)
  ELSE IF m \in {3, 5, 8, 10} THEN 30 ELSE 31

\* the Date constructor / setMonth normalisation: a month outside 0..11
\* moves the year, a day past the end of the month spills into the next one
RECURSIVE MakeDate(_, _, _)
MakeDate(y, m, d) ==
  IF m < 0 \/ m > 11 THEN MakeDate(y + (m \div 12), m % 12, d)
  ELSE IF d > DaysInMonth(y, m) THEN MakeDate(y, m + 1, d - DaysInMonth(y, m))
  ELSE [year |-> y, month |-> m, day |-> d]

\* line 13: `${date.getFullYear()}-${String(date.getMonth() + 1).padStart(2, '0')}`
getMonthKey(date) ==
  IntToString(date.year) \o <<"-">> \o padStart2(IntToString(date.month + 1))

\* lines 189-190: new Date(currentDate); newDate.setMonth(getMonth() + direction)
setMonth(date, direction) == MakeDate(date.year, date.month + direction, date.day)

MonthIndex(date) == date.year * 12 + date.month

ValidDates(years, days) ==
  { [year |-> y, month |-> m, day |-> d] :
      y \in years, m \in 0..11, d \in days } \cap
  { dt \in [year : years, month : 0..11, day : days] :
      dt.day <= DaysInMonth(dt.year, dt.month) }

\* ------------------------------------------------------------------ inputs
\* what the user can type into the number inputs (type="number", required,
\* no min attribute: zero and negative values pass the browser's validation)
IncomeInputs == { IntToString(n) : n \in {0, 3} }
LimitInputs == { IntToString(n) : n \in {2} }
RecurringAmountInputs == { IntToString(n) : n \in {1, 2} }
AmountInputs == { IntToString(n) : n \in {-1, 2} }
NameInputs == { <<"A">> }

WindowFirst == FirstYear * 12 + 11
WindowLast == WindowFirst + WindowMonths - 1
NavFirst == FirstYear * 12
NavLast == NavFirst + NavYears * 12 - 1

\* new Date() at mount: the middle of the January that follows the window's
\* first month (the navigation specification starts on every day)
StartDays == {15}
StartDates ==
  { dt \in ValidDates({FirstYear + 1}, StartDays) : dt.month = 0 }

\* ------------------------------------------------------------------- state
VARIABLES
  categories,         \* line 74: useState([])
  recurringExpenses,  \* line 75: useState([])
  monthlyLedgers,     \* line 76: useState({}), month key -> ledger
  transactions,       \* line 77: useState([])
  currentDate,        \* line 80: useState(new Date())
  view,               \* line 81: useState('dashboard')
  isFirstLoad,        \* line 82: useState(true)
  pending,            \* state updates queued by the running handler/effect
  pc,                 \* what React runs next: load, persist, render, idle
  storage             \* localStorage item 'zeroBudget_MVP_v1'

vars == <<categories, recurringExpenses, monthlyLedgers, transactions,
          currentDate, view, isFirstLoad, pending, pc, storage>>

committed == <<categories, recurringExpenses, monthlyLedgers, transactions,
               currentDate, view, isFirstLoad>>

NoDocument == [kind |-> "absent"]
MalformedDocument == [kind |-> "malformed"]

\* an object with no own properties ({}): the function with empty domain
EmptyObject == [k \in {} |-> k]

\* obj[key], undefined when the key is not an own property
HasKey(obj, key) == key \in DOMAIN obj

\* lines 85-86
currentMonthKey == getMonthKey(currentDate)
hasCurrentLedger == HasKey(monthlyLedgers, currentMonthKey)

\* lines 104-109: JSON.stringify of the four collections
JSONstringify(cats, recs, ledgers, txs) ==
  [kind |-> "json",
   fields |-> [categories |-> cats, recurringExpenses |-> recs,
               monthlyLedgers |-> ledgers, transactions |-> txs]]

\* parsed.field || fallback
FieldOr(parsed, field, fallback) ==
  IF field \in DOMAIN parsed THEN parsed[field] ELSE fallback

\* ------------------------------------------------------- business functions
\* .reduce((acc, t) => acc + Number(t.amount), 0)
RECURSIVE SumAmounts(_)
SumAmounts(txs) ==
  IF txs = <<>> THEN 0 ELSE Head(txs).amount + SumAmounts(Tail(txs))

\* .filter(t => t.monthKey === key)
FilterByMonth(txs, key) == SelectSeq(txs, LAMBDA t : t.monthKey = key)

\* prevKeyOf with the month index not moved back (month - 1 in place of
\* month - 2): the target month itself
prevKeyOfTargetMonth(targetMonthKey) ==
  LET parts == SplitDash(targetMonthKey, <<>>)
      year == NumberOf(parts[1])
      month == NumberOf(parts[2])
  IN  getMonthKey(MakeDate(year, month - 1, 1))

\* lines 118-120: the key of the month before targetMonthKey
\*   const [year, month] = targetMonthKey.split('-').map(Number);
\*   const prevDate = new Date(year, month - 2);
prevKeyOf(targetMonthKey) ==
  LET parts == SplitDash(targetMonthKey, <<>>)
      year == NumberOf(parts[1])
      month == NumberOf(parts[2])
  IN  getMonthKey(MakeDate(year, month - 2, 1))

Max(a, b) == IF a >= b THEN a ELSE b

\* calculateRollover without the Math.max(0, ...) clamp
calculateRolloverUnclamped(targetMonthKey) ==
  LET prevKey == prevKeyOf(targetMonthKey)
  IN  IF ~HasKey(monthlyLedgers, prevKey) THEN 0
      ELSE (monthlyLedgers[prevKey].income + monthlyLedgers[prevKey].rollover)
             - SumAmounts(FilterByMonth(transactions, prevKey))

\* lines 116-135
calculateRollover(targetMonthKey) ==
  LET prevKey == prevKeyOf(targetMonthKey)
  IN  IF ~HasKey(monthlyLedgers, prevKey) THEN 0
      ELSE LET prevLedger == monthlyLedgers[prevKey]
               prevExpenses == SumAmounts(FilterByMonth(transactions, prevKey))
               balance == (prevLedger.income + prevLedger.rollover) - prevExpenses
           IN  Max(0, balance)

\* the templates with every later template of an already seen category dropped
RECURSIVE OnePerCategory(_)
OnePerCategory(models) ==
  IF models = <<>> THEN <<>>
  ELSE LET front == OnePerCategory(SubSeq(models, 1, Len(models) - 1))
           last == models[Len(models)]
       IN  IF \E i \in DOMAIN front : front[i].categoryId = last.categoryId
             THEN front ELSE Append(front, last)

\* autoTransactions keyed by category: one automated transaction per category
autoTransactionsPerCategory(models, monthKey) ==
  [i \in 1..Len(OnePerCategory(models)) |->
     [monthKey |-> monthKey, categoryId |-> OnePerCategory(models)[i].categoryId,
      amount |-> OnePerCategory(models)[i].amount, isFixed |-> TRUE]]

\* lines 153-161: one automated transaction per recurring template
autoTransactions(models, monthKey) ==
  [i \in 1..Len(models) |->
     [monthKey |-> monthKey, categoryId |-> models[i].categoryId,
      amount |-> models[i].amount, isFixed |-> TRUE]]

\* startNewMonth setting the log to the new automated transactions instead
\* of appending them to the previous log
startNewMonthReplacingLog(incomeInput, rolloverInput) ==
  LET newLedger == [income |-> NumberOf(incomeInput),
                    rollover |-> rolloverInput,
                    status |-> "OPEN"]
  IN  << [target |-> "monthlyLedgers", fn |-> "merge",
          key |-> currentMonthKey, value |-> newLedger],
         [target |-> "transactions", fn |-> "set",
          value |-> autoTransactions(recurringExpenses, currentMonthKey)],
         [target |-> "view", fn |-> "set", value |-> "dashboard"] >>

\* lines 138-168: the state updates startNewMonth queues, in order
startNewMonth(incomeInput, rolloverInput) ==
  LET newLedger == [income |-> NumberOf(incomeInput),
                    rollover |-> rolloverInput,
                    status |-> "OPEN"]
  IN  << [target |-> "monthlyLedgers", fn |-> "merge",
          key |-> currentMonthKey, value |-> newLedger],
         [target |-> "transactions", fn |-> "append",
          value |-> autoTransactions(recurringExpenses, currentMonthKey)],
         [target |-> "view", fn |-> "set", value |-> "dashboard"] >>

\* Screen with the setup guard not looking at the Ledger: the setup screen
\* is shown for every month
ScreenIgnoringLedger ==
  IF view # "settings" THEN "setup" ELSE "settings"

\* Screen without the setup guard: the dashboard is shown for every month
ScreenWithoutSetup ==
  IF view = "settings" THEN "settings"
  ELSE IF view = "add-transaction" THEN "add-transaction"
  ELSE "dashboard"

\* lines 222, 283, 367, 403: which screen the component returns
Screen ==
  IF ~hasCurrentLedger /\ view # "settings" THEN "setup"
  ELSE IF view = "settings" THEN "settings"
  ELSE IF view = "add-transaction" THEN "add-transaction"
  ELSE "dashboard"

\* --------------------------------------------------- React state machinery
\* the seven useState cells as one record
Cells ==
  [categories |-> categories, recurringExpenses |-> recurringExpenses,
   monthlyLedgers |-> monthlyLedgers, transactions |-> transactions,
   currentDate |-> currentDate, view |-> view, isFirstLoad |-> isFirstLoad]

\* one queued setState call applied to the cells: a plain value, the
\* updater prev => ({...prev, [key]: value}) or prev => [...prev, ...value]
ApplyUpdate(cells, u) ==
  IF u.fn = "merge"
    THEN [cells EXCEPT ![u.target] =
            [k \in DOMAIN @ \cup {u.key} |-> IF k = u.key THEN u.value ELSE @[k]]]
  ELSE IF u.fn = "append"
    THEN [cells EXCEPT ![u.target] = @ \o u.value]
  ELSE [cells EXCEPT ![u.target] = u.value]

RECURSIVE ApplyAll(_, _)
ApplyAll(cells, updates) ==
  IF updates = <<>> THEN cells
  ELSE ApplyAll(ApplyUpdate(cells, Head(updates)), Tail(updates))

\* BatchSize without batching: one render pass per setState call
BatchSizeOne(updates) == IF updates = <<>> THEN 0 ELSE 1

\* how many queued updates one render pass applies: React batches all the
\* setState calls of one event handler or effect flush
BatchSize(updates) == Len(updates)

\* DepsChanged with transactions left out of the dependency array
DepsChangedWithoutTransactions(old, new) ==
  \/ old.categories # new.categories
  \/ old.recurringExpenses # new.recurringExpenses
  \/ old.monthlyLedgers # new.monthlyLedgers
  \/ old.isFirstLoad # new.isFirstLoad

\* lines 111: the persist effect's dependency array changed
DepsChanged(old, new) ==
  \/ old.categories # new.categories
  \/ old.recurringExpenses # new.recurringExpenses
  \/ old.monthlyLedgers # new.monthlyLedgers
  \/ old.transactions # new.transactions
  \/ old.isFirstLoad # new.isFirstLoad

Set(target, value) == [target |-> target, fn |-> "set", value |-> value]

\* React re-renders: the first BatchSize queued updates are applied to the
\* cells in one pass; the persist effect is scheduled when one of its
\* dependencies changed (line 111)
RenderWith(updates) ==
  LET n == BatchSize(updates)
      new == ApplyAll(Cells, SubSeq(updates, 1, n))
      rest == SubSeq(updates, n + 1, Len(updates))
  IN  /\ categories' = new.categories
      /\ recurringExpenses' = new.recurringExpenses
      /\ monthlyLedgers' = new.monthlyLedgers
      /\ transactions' = new.transactions
      /\ currentDate' = new.currentDate
      /\ view' = new.view
      /\ isFirstLoad' = new.isFirstLoad
      /\ pending' = rest
      /\ pc' = IF DepsChanged(Cells, new) THEN "persist"
               ELSE IF rest # <<>> THEN "render" ELSE "idle"
      /\ UNCHANGED storage

\* the render that follows an effect flush (or a render that left updates)
Render ==
  /\ pc = "render"
  /\ RenderWith(pending)

\* lines 90-100: the load effect, run once after the first render
LoadEffect ==
  /\ pc = "load"
  /\ \/ /\ storage.kind = "absent"
        /\ pending' = <<Set("isFirstLoad", FALSE)>>
        /\ pc' = "persist"
     \/ /\ storage.kind = "malformed"
        \* JSON.parse throws inside the effect: React unmounts the tree
        /\ pending' = pending
        /\ pc' = "crashed"
     \/ /\ storage.kind = "json"
        /\ LET parsed == storage.fields
           IN  pending' =
                 << Set("categories", FieldOr(parsed, "categories", <<>>)),
                    Set("recurringExpenses", FieldOr(parsed, "recurringExpenses", <<>>)),
                    Set("monthlyLedgers", FieldOr(parsed, "monthlyLedgers", EmptyObject)),
                    Set("transactions", FieldOr(parsed, "transactions", <<>>)),
                    Set("isFirstLoad", FALSE) >>
        /\ pc' = "persist"
  /\ UNCHANGED <<committed, storage>>

\* PersistEffect without the isFirstLoad guard: every run writes
PersistEffectUnguarded ==
  /\ pc = "persist"
  /\ storage' = JSONstringify(categories, recurringExpenses,
                              monthlyLedgers, transactions)
  /\ pc' = IF pending # <<>> THEN "render" ELSE "idle"
  /\ UNCHANGED <<committed, pending>>

\* lines 102-111: the persist effect, reading the cells of the last render
PersistEffect ==
  /\ pc = "persist"
  /\ storage' = IF ~isFirstLoad
                  THEN JSONstringify(categories, recurringExpenses,
                                     monthlyLedgers, transactions)
                  ELSE storage
  /\ pc' = IF pending # <<>> THEN "render" ELSE "idle"
  /\ UNCHANGED <<committed, pending>>

\* an event handler called these setState functions: React renders
\* synchronously when the handler of a discrete event returns
Dispatch(updates) == RenderWith(updates)

\* how many records the user has created by hand
EntryCount ==
  Len(categories) + Len(recurringExpenses)
    + Len(SelectSeq(transactions, LAMBDA t : ~t.isFixed))

\* lines 188-194, within the months first..last
handleMonthChange(direction, first, last) ==
  LET newDate == setMonth(currentDate, direction)
  IN  /\ MonthIndex(newDate) \in first..last
      /\ Dispatch(<<Set("currentDate", newDate)>>)

\* lines 223, 235-238: the setup screen's form is submitted with one of
\* incomes typed in
SubmitSetupWith(incomes) ==
  /\ pc = "idle" /\ Screen = "setup"
  /\ \E incomeInput \in incomes :
       LET projectedRollover == calculateRollover(currentMonthKey)
       IN  Dispatch(startNewMonth(incomeInput, projectedRollover))

SubmitSetup == SubmitSetupWith(IncomeInputs)

\* line 272: "Voltar Mes" on the setup screen.  Button (lines 36-53) does not
\* forward its type prop, so with the income filled in the click also
\* submits the form; that submit is a SubmitSetup step after this one
SetupBack ==
  /\ pc = "idle" /\ Screen = "setup"
  /\ handleMonthChange(-1, WindowFirst, WindowLast)

\* lines 411, 416: the dashboard's month navigator
DashboardNavigate ==
  /\ pc = "idle" /\ Screen = "dashboard"
  /\ \E direction \in {-1, 1} :
       handleMonthChange(direction, WindowFirst, WindowLast)

\* lines 434, 476: open the settings screen
OpenSettings ==
  /\ pc = "idle" /\ Screen = "dashboard"
  /\ Dispatch(<<Set("view", "settings")>>)

\* line 288
CloseSettings ==
  /\ pc = "idle" /\ Screen = "settings"
  /\ Dispatch(<<Set("view", "dashboard")>>)

\* line 199: what Date.now() can read when a category is created: the
\* reading that made the previous category's id, or a later one
ClockReadings ==
  IF categories = <<>> THEN {0}
  ELSE LET last == NumberOf(categories[Len(categories)].id)
       IN  {last, last + 1}

\* an <input required> lets the form be submitted only with a value in it
RequiredFilled(value) == value # <<>>

\* lines 196-205, form at 297-303: the form is submitted with a name among
\* names and a limit among limits typed in
CreateCategoryFrom(names, limits) ==
  /\ pc = "idle" /\ Screen = "settings"
  /\ EntryCount < MaxEntries
  /\ \E t \in ClockReadings, name \in names, limit \in limits :
       /\ RequiredFilled(name) /\ RequiredFilled(limit)
       /\ LET newCat == [id |-> IntToString(t), name |-> name,
                         limit |-> NumberOf(limit)]
          IN  Dispatch(<<Set("categories", Append(categories, newCat))>>)

handleCreateCategory == CreateCategoryFrom(NameInputs, LimitInputs)

\* the same form with the name left empty and with limits of any sign
AnyNameInputs == NameInputs \cup {<<>>}

AnyLimitInputs == LimitInputs \cup { IntToString(n) : n \in {-1, 0} }

handleCreateCategoryAnyInput == CreateCategoryFrom(AnyNameInputs, AnyLimitInputs)

\* the values of the <option>s of the category <select> (lines 329-330,
\* 388-389): the placeholder's empty value and the registered ids
SelectOptions == {<<>>} \cup { categories[i].id : i \in DOMAIN categories }

CategoryOptionsNotRequired == SelectOptions

\* the values a required <select> lets the form be submitted with
CategoryOptions == { value \in SelectOptions : RequiredFilled(value) }

\* lines 207-217, form at 321-334
handleCreateRecurring ==
  /\ pc = "idle" /\ Screen = "settings"
  /\ categories # <<>>
  /\ EntryCount < MaxEntries
  /\ \E name \in NameInputs, amount \in RecurringAmountInputs,
        category \in CategoryOptions :
       LET newRec == [name |-> name, amount |-> NumberOf(amount),
                      categoryId |-> category]
       IN  Dispatch(<<Set("recurringExpenses", Append(recurringExpenses, newRec))>>)

\* lines 351-355: localStorage.clear(); window.location.reload()
ResetApp ==
  /\ pc = "idle" /\ Screen = "settings"
  /\ categories' = <<>>
  /\ recurringExpenses' = <<>>
  /\ monthlyLedgers' = EmptyObject
  /\ transactions' = <<>>
  /\ currentDate' \in StartDates
  /\ view' = "dashboard"
  /\ isFirstLoad' = TRUE
  /\ pending' = <<>>
  /\ pc' = "load"
  /\ storage' = NoDocument

\* line 486: the floating "Nova Despesa" button
OpenAddTransaction ==
  /\ pc = "idle" /\ Screen = "dashboard"
  /\ categories # <<>>
  /\ Dispatch(<<Set("view", "add-transaction")>>)

\* lines 372-383: the add-transaction form is submitted
SubmitTransaction ==
  /\ pc = "idle" /\ Screen = "add-transaction"
  /\ EntryCount < MaxEntries
  /\ \E amount \in AmountInputs, category \in CategoryOptions :
       LET newTrans == [monthKey |-> currentMonthKey, categoryId |-> category,
                        amount |-> NumberOf(amount), isFixed |-> FALSE]
       IN  Dispatch(<< Set("transactions", Append(transactions, newTrans)),
                       Set("view", "dashboard") >>)

\* line 393
CancelTransaction ==
  /\ pc = "idle" /\ Screen = "add-transaction"
  /\ Dispatch(<<Set("view", "dashboard")>>)

\* ------------------------------------------------------ what the screens show
\* line 86: monthlyLedgers[currentMonthKey], read only where it is defined
currentLedger == monthlyLedgers[currentMonthKey]

\* lines 172-174
currentTransactions == FilterByMonth(transactions, currentMonthKey)

\* lines 176-180; the amounts in the log are numbers already, so Number()
\* leaves them as they are
getSpentByCategory(categoryId) ==
  SumAmounts(SelectSeq(currentTransactions,
                       LAMBDA t : t.categoryId = categoryId))

\* line 182
totalSpent == SumAmounts(currentTransactions)

\* x || 0 for a number x
OrZero(x) == IF x = 0 THEN 0 ELSE x

\* totalAvailable without the rollover the month received
totalAvailableIncomeOnly ==
  IF hasCurrentLedger THEN OrZero(currentLedger.income) ELSE 0

\* line 183: (currentLedger?.income || 0) + (currentLedger?.rollover || 0)
totalAvailable ==
  IF hasCurrentLedger
  THEN OrZero(currentLedger.income) + OrZero(currentLedger.rollover)
  ELSE 0

\* a JavaScript number as the dashboard's arithmetic needs it: the finite
\* rational num / den (den > 0), NaN, Infinity or -Infinity
Finite(n, d) == [kind |-> "finite", num |-> n, den |-> d]

NaN == [kind |-> "NaN", num |-> 0, den |-> 0]

PlusInfinity == [kind |-> "Infinity", num |-> 1, den |-> 0]

MinusInfinity == [kind |-> "-Infinity", num |-> 0 - 1, den |-> 0]

\* a / b on two integers
Divide(a, b) ==
  IF b = 0
  THEN IF a = 0 THEN NaN ELSE IF a > 0 THEN PlusInfinity ELSE MinusInfinity
  ELSE IF b > 0 THEN Finite(a, b) ELSE Finite(0 - a, 0 - b)

\* x * 100
TimesHundred(x) == IF x.kind = "finite" THEN Finite(x.num * 100, x.den) ELSE x

\* x <= y on two numbers that are not NaN
NotAbove(x, y) ==
  IF x.kind = "-Infinity" \/ y.kind = "Infinity" THEN TRUE
  ELSE IF x.kind = "Infinity" \/ y.kind = "-Infinity" THEN FALSE
  ELSE x.num * y.den <= y.num * x.den

\* Math.min(x, y): NaN when either is NaN
MathMin(x, y) ==
  IF x.kind = "NaN" \/ y.kind = "NaN" THEN NaN
  ELSE IF NotAbove(x, y) THEN x ELSE y

\* lines 450-451: Math.min((spent / cat.limit) * 100, 100)
percentage(cat) ==
  MathMin(TimesHundred(Divide(getSpentByCategory(cat.id), cat.limit)),
          Finite(100, 1))

\* remainingBalance clamped at zero, as calculateRollover clamps
remainingBalanceClamped == Max(0, totalAvailable - totalSpent)

\* line 184
remainingBalance == totalAvailable - totalSpent

\* ------------------------------------------------------------ specification
\* a document the program itself wrote in an earlier session
SampleDocument ==
  LET key == getMonthKey([year |-> FirstYear, month |-> 11, day |-> 1])
  IN  JSONstringify(
        << [id |-> IntToString(0), name |-> <<"A">>, limit |-> 2] >>,
        << [name |-> <<"A">>, amount |-> 1, categoryId |-> IntToString(0)] >>,
        [k \in {key} |-> [income |-> 3, rollover |-> 0, status |-> "OPEN"]],
        << [monthKey |-> key, categoryId |-> IntToString(0), amount |-> 1,
            isFixed |-> TRUE] >>)

\* a document that holds only one of the four fields
PartialDocument ==
  [kind |-> "json",
   fields |-> [categories |->
                 << [id |-> IntToString(0), name |-> <<"A">>, limit |-> 2] >>]]

SavedDocuments ==
  {NoDocument, MalformedDocument, SampleDocument, PartialDocument}

Init ==
  /\ categories = <<>>
  /\ recurringExpenses = <<>>
  /\ monthlyLedgers = EmptyObject
  /\ transactions = <<>>
  /\ currentDate \in StartDates
  /\ view = "dashboard"
  /\ isFirstLoad = TRUE
  /\ pending = <<>>
  /\ pc = "load"
  /\ storage \in SavedDocuments

Next ==
  \/ LoadEffect
  \/ PersistEffect
  \/ Render
  \/ SubmitSetup
  \/ SetupBack
  \/ DashboardNavigate
  \/ OpenSettings
  \/ CloseSettings
  \/ handleCreateCategory
  \/ handleCreateRecurring
  \/ ResetApp
  \/ OpenAddTransaction
  \/ SubmitTransaction
  \/ CancelTransaction

Spec == Init /\ [][Next]_vars

\* React runs every effect and every render pass it has scheduled
SpecFair ==
  /\ Spec
  /\ WF_vars(LoadEffect)
  /\ WF_vars(Render)
  /\ WF_vars(PersistEffect)

\* the program with the category form fed every kind of input
NextRegistry ==
  \/ LoadEffect
  \/ PersistEffect
  \/ Render
  \/ SubmitSetup
  \/ SetupBack
  \/ DashboardNavigate
  \/ OpenSettings
  \/ CloseSettings
  \/ handleCreateCategoryAnyInput
  \/ handleCreateRecurring
  \/ ResetApp
  \/ OpenAddTransaction
  \/ SubmitTransaction
  \/ CancelTransaction

SpecRegistry == Init /\ [][NextRegistry]_vars

\* ------------------------------------------------- vocabulary of the claims
\* the canonical key of the month with index i (year * 12 + month)
KeyOfIndex(i) == getMonthKey([year |-> i \div 12, month |-> i % 12, day |-> 1])

\* the months whose rollover can be asked for: the window and the month after
TargetIndexes == WindowFirst..(WindowLast + 1)

\* <<categoryId, amount>> of the automated transactions tagged m, in log order
AutomatedOf(txs, m) ==
  LET auto == SelectSeq(txs, LAMBDA t : t.isFixed /\ t.monthKey = m)
  IN  [i \in 1..Len(auto) |-> <<auto[i].categoryId, auto[i].amount>>]

\* <<categoryId, amount>> of the templates, in registration order
TemplatesOf(models) ==
  [i \in 1..Len(models) |-> <<models[i].categoryId, models[i].amount>>]

\* total of the amounts tagged m among the first n entries of the log
RECURSIVE SpentUpTo(_, _)
SpentUpTo(m, n) ==
  IF n = 0 THEN 0
  ELSE SpentUpTo(m, n - 1)
         + (IF transactions[n].monthKey = m THEN transactions[n].amount ELSE 0)

\* what month m has left: income + rollover - everything tagged m
BalanceOf(m) ==
  monthlyLedgers[m].income + monthlyLedgers[m].rollover
    - SpentUpTo(m, Len(transactions))

\* ------------------------------------------------------------------- claims
\* C1: opening the month in view from the setup screen leaves a Ledger for it
\* and, tagged to it, exactly one automated transaction per recurring
\* template registered at call time, with that template's categoryId and
\* amount, in template order (duplicated templates included).
C1_OpenMaterializesTemplates ==
  [][SubmitSetup =>
       /\ HasKey(monthlyLedgers', currentMonthKey)
       /\ AutomatedOf(transactions', currentMonthKey)
            = TemplatesOf(recurringExpenses)]_vars

\* a month was opened while two templates with the same category and the
\* same amount were registered, and both were materialised
C1_Witness ==
  /\ Len(recurringExpenses) = 2
  /\ recurringExpenses[1] = recurringExpenses[2]
  /\ \E m \in DOMAIN monthlyLedgers :
       AutomatedOf(transactions, m) = TemplatesOf(recurringExpenses)

\* C2: a month that has a Ledger is never opened again: while its Ledger
\* exists, no step changes the automated transactions tagged to it.
C2_NoDoubleOpen ==
  [][\A m \in DOMAIN monthlyLedgers :
       HasKey(monthlyLedgers', m) =>
         AutomatedOf(transactions', m) = AutomatedOf(transactions, m)]_vars

\* the user is back on an open month that has automated transactions, with
\* templates registered: opening it again would duplicate them
C2_Witness ==
  /\ pc = "idle" /\ Screen = "dashboard"
  /\ recurringExpenses # <<>>
  /\ AutomatedOf(transactions, currentMonthKey) # <<>>
  /\ Cardinality(DOMAIN monthlyLedgers) = 2

\* C3: calculateRollover(t) is 0 when the month before t has no Ledger and
\* otherwise max(0, income + rollover - spend) of the month before t.
C3_RolloverFormula ==
  \A i \in TargetIndexes :
    LET prev == KeyOfIndex(i - 1)
    IN  calculateRollover(KeyOfIndex(i)) =
          IF ~HasKey(monthlyLedgers, prev) THEN 0
          ELSE IF BalanceOf(prev) > 0 THEN BalanceOf(prev) ELSE 0

\* the first month has an unspent balance that rolls over into the second,
\* which is not open, so the third month's rollover is 0 despite that balance
C3_Witness ==
  /\ HasKey(monthlyLedgers, KeyOfIndex(WindowFirst))
  /\ ~HasKey(monthlyLedgers, KeyOfIndex(WindowFirst + 1))
  /\ transactions # <<>>
  /\ BalanceOf(KeyOfIndex(WindowFirst)) > 0
  /\ calculateRollover(KeyOfIndex(WindowFirst + 1)) > 0
  /\ calculateRollover(KeyOfIndex(WindowFirst + 2)) = 0

\* C4: calculateRollover never returns a negative value.
C4_RolloverNonNegative ==
  \A i \in TargetIndexes : calculateRollover(KeyOfIndex(i)) >= 0

\* an overspent month: its balance is negative, the rollover out of it is 0
C4_Witness ==
  \E i \in WindowFirst..WindowLast :
    /\ HasKey(monthlyLedgers, KeyOfIndex(i))
    /\ BalanceOf(KeyOfIndex(i)) < 0
    /\ calculateRollover(KeyOfIndex(i + 1)) = 0

\* the queued updates of an opening that the cells do not show yet
PendingAppends ==
  { j \in DOMAIN pending : pending[j].fn = "append" /\ pending[j].value # <<>> }
PendingMerges == { j \in DOMAIN pending : pending[j].fn = "merge" }

\* C5: what a render or the persist effect can observe (the cells, and the
\* document the persist effect wrote from them) never holds one half of an
\* opening: no Ledger is visible while the automated transactions of its
\* opening are still queued, and no such transactions while the Ledger is.
C5_OpenIsAtomic ==
  /\ \A j \in PendingAppends :
       \A k \in DOMAIN pending[j].value :
         LET m == pending[j].value[k].monthKey
         IN  /\ ~HasKey(monthlyLedgers, m)
             /\ storage.kind = "json" => ~HasKey(storage.fields.monthlyLedgers, m)
  /\ \A j \in PendingMerges :
       /\ AutomatedOf(transactions, pending[j].key) = <<>>
       /\ storage.kind = "json" =>
            AutomatedOf(storage.fields.transactions, pending[j].key) = <<>>

\* the persist effect is about to run on the cells of an opening: it sees
\* the new Ledger together with its automated transactions, none queued
C5_Witness ==
  /\ pc = "persist" /\ ~isFirstLoad
  /\ pending = <<>>
  /\ hasCurrentLedger
  /\ storage.kind = "json"
  /\ ~HasKey(storage.fields.monthlyLedgers, currentMonthKey)
  /\ Len(AutomatedOf(transactions, currentMonthKey)) = 2

\* the month key the parts of key k denote (its canonical form)
Canonical(k) ==
  LET parts == SplitDash(k, <<>>)
  IN  KeyOfIndex(NumberOf(parts[1]) * 12 + NumberOf(parts[2]) - 1)

\* C6: month keys are canonical, so a month has at most one Ledger, and a
\* Ledger, once it exists, keeps its income, rollover and status OPEN through
\* every step other than the full reset.
C6_LedgerImmutable ==
  [][\/ ResetApp
     \/ /\ \A k \in DOMAIN monthlyLedgers' : Canonical(k) = k
        /\ \A m \in DOMAIN monthlyLedgers :
             /\ HasKey(monthlyLedgers', m)
             /\ monthlyLedgers'[m] = monthlyLedgers[m]
             /\ monthlyLedgers'[m].status = "OPEN"]_vars

\* a second month was opened and an expense recorded by hand after the
\* first Ledger was created, and the user is back on the first month
C6_Witness ==
  /\ pc = "idle" /\ Screen = "dashboard"
  /\ Cardinality(DOMAIN monthlyLedgers) = 2
  /\ currentMonthKey = KeyOfIndex(WindowFirst)
  /\ \E i \in DOMAIN transactions :
       ~transactions[i].isFixed
       /\ transactions[i].monthKey = KeyOfIndex(WindowFirst + 1)

\* C7: every transaction in the log is tagged with a month that has a Ledger.
C7_TransactionsInOpenMonths ==
  \A i \in DOMAIN transactions :
    HasKey(monthlyLedgers, transactions[i].monthKey)

\* an expense was recorded by hand, and the month now in view has no Ledger:
\* the setup screen is shown, where nothing can be recorded
C7_Witness ==
  /\ pc = "idle" /\ Screen = "setup"
  /\ categories # <<>>
  /\ \E i \in DOMAIN transactions : ~transactions[i].isFixed

\* C8 (as claimed): every transaction in the log has a non-negative amount.
C8_AmountsNonNegative ==
  \A i \in DOMAIN transactions : transactions[i].amount >= 0

\* ------------------------------------------- the month navigation on its own
\* every month of the NavYears years has been opened (with income 0 and
\* nothing spent), so the dashboard and its navigator are shown in each, and
\* the date in view is any day of those years
NavYearSet == FirstYear..(FirstYear + NavYears - 1)

InitNav ==
  /\ categories = <<>>
  /\ recurringExpenses = <<>>
  /\ monthlyLedgers =
       [k \in { KeyOfIndex(i) : i \in NavFirst..NavLast } |->
          [income |-> 0, rollover |-> 0, status |-> "OPEN"]]
  /\ transactions = <<>>
  /\ currentDate \in ValidDates(NavYearSet, 1..31)
  /\ view = "dashboard"
  /\ isFirstLoad = FALSE
  /\ pending = <<>>
  /\ pc = "idle"
  /\ storage = JSONstringify(categories, recurringExpenses, monthlyLedgers,
                             transactions)

\* lines 411, 416: the dashboard's month navigator, within the NavYears years
NavigateBack ==
  /\ pc = "idle" /\ Screen = "dashboard"
  /\ handleMonthChange(-1, NavFirst, NavLast)

NavigateForward ==
  /\ pc = "idle" /\ Screen = "dashboard"
  /\ handleMonthChange(1, NavFirst, NavLast)

NextNav == NavigateBack \/ NavigateForward

SpecNav == InitNav /\ [][NextNav]_vars

\* handleMonthChange applied |n| times in the direction of n
RECURSIVE Shift(_, _)
Shift(date, n) ==
  IF n = 0 THEN date
  ELSE IF n > 0 THEN Shift(setMonth(date, 1), n - 1)
  ELSE Shift(setMonth(date, -1), n + 1)

\* C9 (as claimed): shifting the date in view by n months and then by -n
\* months gives back the month key in view.
C9_ShiftInvertible ==
  \A n \in (0 - MaxShift)..MaxShift :
    getMonthKey(Shift(Shift(currentDate, n), 0 - n)) = getMonthKey(currentDate)

\* C10 (as claimed): one navigation step moves the month key in view to the
\* next (or the previous) calendar month, and the month before January of a
\* year is December of the year before.
C10_StepIsOneMonth ==
  [][/\ NavigateForward =>
          getMonthKey(currentDate') = KeyOfIndex(MonthIndex(currentDate) + 1)
     /\ NavigateBack =>
          getMonthKey(currentDate') = KeyOfIndex(MonthIndex(currentDate) - 1)
     /\ \A y \in NavYearSet :
          prevKeyOf(KeyOfIndex(y * 12)) = KeyOfIndex(y * 12 - 1)]_vars

\* --------------------------------------------------- totals and the registry
\* the sum, over the first n categories of the registry, of what
\* getSpentByCategory gives for the category's id
RECURSIVE SpentAcrossCategories(_)
SpentAcrossCategories(n) ==
  IF n = 0 THEN 0
  ELSE SpentAcrossCategories(n - 1) + getSpentByCategory(categories[n].id)

\* C11: for the month in view, totalSpent equals the sum over all registered
\* categories of getSpentByCategory.
C11_SpentSumsOverCategories ==
  totalSpent = SpentAcrossCategories(Len(categories))

\* C12: for the month in view, totalAvailable is income + rollover of its
\* Ledger when it has one and 0 otherwise, and remainingBalance is
\* totalAvailable minus everything tagged to the month, never clamped.
C12_AvailableAndRemaining ==
  /\ totalAvailable =
       IF HasKey(monthlyLedgers, currentMonthKey)
       THEN monthlyLedgers[currentMonthKey].income
              + monthlyLedgers[currentMonthKey].rollover
       ELSE 0
  /\ remainingBalance
       = totalAvailable - SpentUpTo(currentMonthKey, Len(transactions))

\* an open month in view whose spend exceeds what is available, and that
\* received a positive rollover: the balance shown is negative
C12_Witness ==
  /\ pc = "idle" /\ Screen = "dashboard"
  /\ monthlyLedgers[currentMonthKey].rollover > 0
  /\ SpentUpTo(currentMonthKey, Len(transactions)) > totalAvailable
  /\ remainingBalance < 0

\* C13 (as claimed): on the dashboard, the utilization percentage of every
\* registered category is a number in [0, 100], equal to
\* min(100, 100 * spent / limit), and 100 whenever the limit is 0.
C13_UtilizationInRange ==
  Screen = "dashboard" =>
    \A i \in DOMAIN categories :
      LET p == percentage(categories[i])
          spent == getSpentByCategory(categories[i].id)
          limit == categories[i].limit
          sign == IF limit < 0 THEN 0 - 1 ELSE 1
      IN  /\ p.kind = "finite"
          /\ 0 <= p.num /\ p.num <= 100 * p.den
          /\ limit = 0 => p.num = 100 * p.den
          /\ limit # 0 =>
               IF spent * sign >= limit * sign
               THEN p.num = 100 * p.den
               ELSE p.num * limit * sign = 100 * spent * sign * p.den

\* C14 (as claimed): every category in the registry has a limit >= 0 and a
\* non-empty name, because creating one with a negative limit or an empty
\* name is refused.
C14_CategoriesValid ==
  \A i \in DOMAIN categories :
    categories[i].limit >= 0 /\ categories[i].name # <<>>

\* the ids of the registered categories
RegisteredIds == { categories[i].id : i \in DOMAIN categories }

\* C15: every recurring template, and every transaction materialized from a
\* template, references the id of a registered category: a template cannot
\* be created for a category that is not in the registry.
C15_TemplatesReferenceCategories ==
  /\ \A i \in DOMAIN recurringExpenses :
       recurringExpenses[i].categoryId \in RegisteredIds
  /\ \A i \in DOMAIN transactions :
       transactions[i].isFixed => transactions[i].categoryId \in RegisteredIds

\* a template created from the form for the second of two distinct
\* categories, and a month opened afterwards that materialized it
C15_Witness ==
  /\ Cardinality(RegisteredIds) = 2
  /\ \E i \in DOMAIN recurringExpenses, j \in DOMAIN transactions :
       /\ recurringExpenses[i].categoryId = categories[2].id
       /\ transactions[j].isFixed
       /\ transactions[j].categoryId = categories[2].id

\* C16 (as claimed): no two categories of the registry have the same id,
\* also when they were created at the same clock reading.
C16_CategoryIdsUnique ==
  \A i, j \in DOMAIN categories :
    i # j => categories[i].id # categories[j].id

\* C17: the transaction log is append-only: short of a full reset, every
\* step leaves each transaction of the log in place with the same monthKey,
\* categoryId and amount.
C17_LogAppendOnly ==
  [][\/ ResetApp
     \/ /\ Len(transactions') >= Len(transactions)
        /\ \A i \in DOMAIN transactions :
             /\ transactions'[i].monthKey = transactions[i].monthKey
             /\ transactions'[i].categoryId = transactions[i].categoryId
             /\ transactions'[i].amount = transactions[i].amount]_vars

\* the log grew both ways on top of earlier entries: a hand-recorded
\* transaction after an automated one, and then the automated transactions
\* of a month opened later
C17_Witness ==
  /\ pc = "idle"
  /\ Len(transactions) = 3
  /\ transactions[1].isFixed
  /\ ~transactions[2].isFixed
  /\ transactions[3].isFixed
  /\ transactions[3].monthKey # transactions[1].monthKey

\* the four persisted fields and what each is when nothing was read for it
EmptyFields ==
  [categories |-> <<>>, recurringExpenses |-> <<>>,
   monthlyLedgers |-> EmptyObject, transactions |-> <<>>]

\* C18 (as claimed): the startup load never fails as a whole: whatever the
\* persisted document is (absent, malformed, some fields missing), the load
\* leaves every field the document holds loaded, every other field empty,
\* and isFirstLoad false.
C18_LoadNeverFails ==
  [][LoadEffect =>
       LET loaded == ApplyAll(Cells, pending')
       IN  /\ pc' # "crashed"
           /\ loaded.isFirstLoad = FALSE
           /\ \A field \in DOMAIN EmptyFields :
                loaded[field] =
                  IF storage.kind = "json" /\ field \in DOMAIN storage.fields
                  THEN storage.fields[field]
                  ELSE EmptyFields[field]]_vars

\* the document that holds the four collections as they are in memory
InMemoryDocument ==
  JSONstringify(categories, recurringExpenses, monthlyLedgers, transactions)

\* C19: once the startup load is done, whenever the persisted document
\* differs from the four in-memory collections (a mutation happened, or the
\* program started without a document), the document is eventually
\* rewritten to equal them.
C19_MutationsArePersisted ==
  (~isFirstLoad /\ storage # InMemoryDocument)
    ~> (storage = InMemoryDocument)

\* a transaction was just recorded by hand and the document in storage, a
\* complete one, does not hold it yet: the persist effect is due
C19_Witness ==
  /\ pc = "persist" /\ ~isFirstLoad
  /\ storage.kind = "json"
  /\ HasKey(storage.fields, "transactions")
  /\ storage # InMemoryDocument
  /\ Len(transactions) = Len(storage.fields.transactions) + 1
  /\ ~transactions[Len(transactions)].isFixed

\* ------------------------------------------------- the rollover chain scenario
\* October 2025 is open with income 3000 and no rollover, 2500 was spent in
\* it, and the user walks on from October
ScenarioOctober == [year |-> 2025, month |-> 9, day |-> 1]

ScenarioFirst == MonthIndex(ScenarioOctober)

ScenarioLast == ScenarioFirst + 2

ScenarioAmounts == {500, 1000, 1500, 2000, 2500}

ScenarioIncomes == { IntToString(3000) }

\* the ways October's 2500 can have been recorded, in up to three
\* transactions
ScenarioLogs ==
  LET key == getMonthKey(ScenarioOctober)
      entry(a) == [monthKey |-> key, categoryId |-> IntToString(0),
                   amount |-> a, isFixed |-> FALSE]
  IN  { log \in UNION { [1..n -> { entry(a) : a \in ScenarioAmounts }] :
                          n \in 1..3 } :
          SumAmounts(log) = 2500 }

ScenarioTemplates ==
  { <<>>,
    << [name |-> <<"A">>, amount |-> 1000, categoryId |-> IntToString(0)] >> }

InitScenario ==
  /\ categories = << [id |-> IntToString(0), name |-> <<"A">>, limit |-> 2500] >>
  /\ recurringExpenses \in ScenarioTemplates
  /\ monthlyLedgers =
       [k \in {getMonthKey(ScenarioOctober)} |->
          [income |-> 3000, rollover |-> 0, status |-> "OPEN"]]
  /\ transactions \in ScenarioLogs
  /\ currentDate \in { dt \in ValidDates({ScenarioOctober.year}, 1..31) :
                         dt.month = ScenarioOctober.month }
  /\ view = "dashboard"
  /\ isFirstLoad = FALSE
  /\ pending = <<>>
  /\ pc = "idle"
  /\ storage = JSONstringify(categories, recurringExpenses, monthlyLedgers,
                             transactions)

\* lines 411, 416: the dashboard's month navigator, October to December
ScenarioNavigate ==
  /\ pc = "idle" /\ Screen = "dashboard"
  /\ \E direction \in {-1, 1} :
       handleMonthChange(direction, ScenarioFirst, ScenarioLast)

\* line 272: "Voltar Mes" on the setup screen
ScenarioBack ==
  /\ pc = "idle" /\ Screen = "setup"
  /\ handleMonthChange(-1, ScenarioFirst, ScenarioLast)

ScenarioSubmitSetup == SubmitSetupWith(ScenarioIncomes)

NextScenario ==
  \/ ScenarioNavigate
  \/ ScenarioBack
  \/ ScenarioSubmitSetup
  \/ PersistEffect

SpecScenario == InitScenario /\ [][NextScenario]_vars

\* C20: with an October 2025 Ledger {income 3000, rollover 0} and 2500
\* spent in October, calculateRollover("2025-11") is 500, and once November
\* has been opened from the setup screen with income 3000 its Ledger holds
\* that rollover and totalAvailable for 2025-11 is 3500.
C20_RolloverChain ==
  LET october == <<"2", "0", "2", "5", "-", "1", "0">>
      november == <<"2", "0", "2", "5", "-", "1", "1">>
  IN  (/\ HasKey(monthlyLedgers, october)
       /\ monthlyLedgers[october].income = 3000
       /\ monthlyLedgers[october].rollover = 0
       /\ SpentUpTo(october, Len(transactions)) = 2500)
      => /\ calculateRollover(november) = 500
         /\ HasKey(monthlyLedgers, november) =>
              /\ monthlyLedgers[november].income = 3000
              /\ monthlyLedgers[november].rollover = 500
              /\ currentMonthKey = november => totalAvailable = 3500

\* November 2025 was opened from the setup screen after October's 2500 had
\* been recorded in three transactions, and its dashboard is in view
C20_Witness ==
  /\ pc = "idle" /\ Screen = "dashboard"
  /\ currentMonthKey = <<"2", "0", "2", "5", "-", "1", "1">>
  /\ HasKey(monthlyLedgers, <<"2", "0", "2", "5", "-", "1", "0">>)
  /\ Len(FilterByMonth(transactions, <<"2", "0", "2", "5", "-", "1", "0">>)) = 3
  /\ totalAvailable = 3500

\* ------------------------------------------------ rollover and startup order
\* C21 (as claimed): in every state, the rollover of every month that has a
\* Ledger equals the unspent balance of the month before it in that same
\* state: max(0, income + rollover - spend) when that month has a Ledger
\* and 0 when it has none.
C21_RolloverTracksPreviousMonth ==
  \A i \in WindowFirst..WindowLast :
    HasKey(monthlyLedgers, KeyOfIndex(i)) =>
      monthlyLedgers[KeyOfIndex(i)].rollover =
        IF HasKey(monthlyLedgers, KeyOfIndex(i - 1))
        THEN Max(0, BalanceOf(KeyOfIndex(i - 1)))
        ELSE 0

\* C22: the persisted document is never written before the startup load has
\* been applied to memory: apart from the reset, a step changes the document
\* only in the persist effect, with none of the loaded values still waiting
\* for a render, and what it writes is the four in-memory collections.
C22_NoWriteBeforeLoad ==
  [][storage' # storage =>
       \/ ResetApp
       \/ /\ pc = "persist"
          /\ pending = <<>>
          /\ storage' = InMemoryDocument]_vars

\* the persist effect of the mount is about to run: memory still holds the
\* initial empty collections, the values read from an existing complete
\* document wait for the re-render, and the document is untouched
C22_Witness ==
  /\ pc = "persist"
  /\ pending # <<>>
  /\ isFirstLoad
  /\ InMemoryDocument = JSONstringify(<<>>, <<>>, EmptyObject, <<>>)
  /\ storage = SampleDocument

====
